---- MODULE Spec2Model ----
(***************************************************************************)
(* ShoehiveClient (src/client/ShoehiveClient.js, kept here as              *)
(* src/unnamed/part_000 lines 49-268): one WebSocket connection with       *)
(* reconnect-with-backoff, inbound message dispatch, an event             *)
(* subscription table and an outbound sendCommand.                         *)
(*                                                                         *)
(* Every action is one run-to-completion step of the browser event loop:  *)
(* a public method called by the application, a transport event handler   *)
(* registered by setupSocketListeners, or the retry timer callback.       *)
(***************************************************************************)
EXTENDS Integers, Sequences, FiniteSets, TLC

\* ---------------------------------------------------------------- bounds
MaxHandles == 3            \* WebSocket objects one client creates in a run
maxReconnectAttempts == 2  \* options.maxReconnectAttempts of the scenario
MaxListeners == 2          \* registrations held in eventHandlers at a time
MaxCommands == 2           \* sendCommand calls in a run
MaxBody == 2               \* distinct message bodies per message type
MaxCleanups == 2           \* effect cleanups of the provider in a run

\* ------------------------------------------------------------- constants
reconnectDelay == 100      \* options.reconnectDelay of the scenario (ms)

NULL == 0                  \* this.socket = null

Handles == 1..MaxHandles

\* CLIENT_MESSAGE_TYPES.PLAYER_STATE / LOBBY_STATE / TABLE_STATE
PLAYER_STATE == "player:state"
LOBBY_STATE == "lobby:state"
TABLE_STATE == "table:state"

RecognizedTypes == {PLAYER_STATE, LOBBY_STATE, TABLE_STATE}

\* type fields an inbound Message may carry: the three recognized ones, an
\* application-defined one, and one that collides with a lifecycle event name
MessageTypes == RecognizedTypes \cup {"custom", "connected"}

LifecycleEvents == {"connected", "disconnected", "error"}

EventNames == LifecycleEvents \cup MessageTypes \cup {"message"}

\* callbacks the application registers: cbA returns normally, cbT throws
Callbacks == {"cbA", "cbT"}

Throws(cb) == cb = "cbT"

CloseCodes == {1000, 1006}

\* what the authentication strategy does when connect() calls it
AuthOutcomes == {"url", "nourl", "throws", "undefined"}

\* what `new WebSocket(...)` does
CtorOutcomes == {"ok", "throws"}

\* event payloads
NoData == [type |-> "undefined", body |-> 0]
ErrorData(kind) == [type |-> kind, body |-> 0]
CloseData(code) == [type |-> "close", body |-> code]
NoMessage == [type |-> "null", body |-> 0]

\* the argument slot of a step that takes none
NoArg == [json |-> "none", type |-> "none", body |-> 0]

\* the arguments of on(event, callback), and of the closure it returned
Listener(event, callback) == [json |-> callback, type |-> event, body |-> 0]

\* new WebSocket(url) with no protocols: the URL, "auth" for the strategy's
\* url and "server" for this.serverUrl
Url(u) == [json |-> "none", type |-> u, body |-> 0]

VARIABLES
  socket,             \* this.socket: NULL or the current handle
  readyState,         \* readyState of every WebSocket created so far
  listeners,          \* listener sets setupSocketListeners put on a handle
  connected,          \* this.connected
  reconnectAttempts,  \* this.reconnectAttempts
  autoReconnect,      \* this.autoReconnect
  authStrategy,       \* options.authStrategy is configured
  timers,             \* pending setTimeout(() => this.connect(), delay)
  eventHandlers,      \* this.eventHandlers
  closures,           \* unsubscribe closures returned by on()
  playerState, lobbyState, tableState,
  written,            \* commands handed to socket.send()
  payloads,           \* action argument and action field of each of them
  dropped,            \* commands sendCommand refused
  nCmd,               \* sendCommand calls so far
  lastOp,             \* the step just taken and what it returned
  trace,              \* triggerEvent calls of the step just taken
  everOpened,         \* history: some handle reached OPEN
  retriesScheduled,   \* history: retry timers scheduled so far
  retriesSinceOpen,   \* history: retry timers scheduled since the last open
  disconnectCalled,   \* history: disconnect() closed a handle
  closeRequested,     \* history: handles disconnect() called close() on
  provider,           \* the ShoehiveProvider component around the client
  hookCall            \* the last call of useShoehive and what it did

vars == <<socket, readyState, listeners, connected, reconnectAttempts,
          autoReconnect, authStrategy, timers, eventHandlers, closures,
          playerState, lobbyState, tableState, written, payloads, dropped, nCmd,
          lastOp, trace, everOpened, retriesScheduled, retriesSinceOpen,
          disconnectCalled, closeRequested, provider, hookCall>>

connVars == <<socket, readyState, listeners, connected, reconnectAttempts,
              autoReconnect, timers>>
slotVars == <<playerState, lobbyState, tableState>>
cmdVars == <<written, payloads, dropped, nCmd>>
histVars == <<everOpened, retriesScheduled, retriesSinceOpen, disconnectCalled,
              closeRequested>>
reactVars == <<provider, hookCall>>

NumHandles == Cardinality({h \in Handles : readyState[h] # "NONE"})

LiveHandles == {h \in Handles : readyState[h] \in {"CONNECTING", "OPEN"}}

Registrations ==
  LET RECURSIVE Sum(_)
      Sum(S) == IF S = {} THEN 0
                ELSE LET e == CHOOSE x \in S : TRUE
                     IN Len(eventHandlers[e]) + Sum(S \ {e})
  IN Sum(EventNames)

\* what a step was: the operation, what it returned ("true", "false", "throw"
\* for an exception leaving it, "none" for no value), whether it invoked the
\* authentication strategy, its argument and the handle it acted on
Op(op, result, auth, arg, h) ==
  [op |-> op, result |-> result, auth |-> auth, arg |-> arg, h |-> h]

\* ------------------------------------------------------------ triggerEvent
\* forEach over the list: callbacks run in order until one throws
RECURSIVE Invoked(_)
Invoked(list) ==
  IF list = <<>> THEN <<>>
  ELSE IF Throws(Head(list)) THEN <<Head(list)>>
       ELSE <<Head(list)>> \o Invoked(Tail(list))

triggerEvent(event, data) ==
  [event |-> event, data |-> data,
   invoked |-> Invoked(eventHandlers[event]),
   threw |-> \E i \in 1..Len(eventHandlers[event]) : Throws(eventHandlers[event][i])]

\* ------------------------------------------------------------------ Init
\* no ShoehiveProvider: the application built the client itself
NoProvider == [kind |-> "none", autoConnect |-> FALSE, phase |-> "none", cleanups |-> 0]

\* useShoehive has not been called
NoCall == [inside |-> FALSE, result |-> "none"]

\* new ShoehiveClient(serverUrl, options)
constructor ==
  /\ socket = NULL
  /\ readyState = [h \in Handles |-> "NONE"]
  /\ listeners = [h \in Handles |-> 0]
  /\ connected = FALSE
  /\ reconnectAttempts = 0
  /\ autoReconnect \in BOOLEAN
  /\ authStrategy \in BOOLEAN
  /\ timers = <<>>
  /\ eventHandlers = [e \in EventNames |-> <<>>]
  /\ closures = {}
  /\ playerState = NoMessage
  /\ lobbyState = NoMessage
  /\ tableState = NoMessage
  /\ written = {}
  /\ payloads = {}
  /\ dropped = {}
  /\ nCmd = 0
  /\ lastOp = Op("new", "none", FALSE, NoArg, NULL)
  /\ trace = <<>>
  /\ everOpened = FALSE
  /\ retriesScheduled = 0
  /\ retriesSinceOpen = 0
  /\ disconnectCalled = FALSE
  /\ closeRequested = {}

Init ==
  /\ constructor
  /\ provider = NoProvider
  /\ hookCall = NoCall

\* --------------------------------------------------------------- connect
\* connectBusy with the CONNECTING case forgotten
connectBusy_OpenOnly ==
  /\ socket # NULL
  /\ readyState[socket] = "OPEN"

\* connectBusy with the OPEN case forgotten
connectBusy_ConnectingOnly ==
  /\ socket # NULL
  /\ readyState[socket] = "CONNECTING"

\* the guard of connect(): a socket exists and is CONNECTING or OPEN
connectBusy ==
  /\ socket # NULL
  /\ readyState[socket] \in {"CONNECTING", "OPEN"}

\* new WebSocket(url, authConfig.protocols) after the strategy returned
\* authConfig: the strategy's outcome, the URL and that its protocols went in
AuthUrl(auth, u) == [json |-> auth, type |-> u, body |-> 1]

\* socketTarget that opens every handle to this.serverUrl
socketTarget_IgnoresStrategyUrl(auth) ==
  IF authStrategy THEN AuthUrl(auth, "server") ELSE Url("server")

\* the arguments of new WebSocket in connect(): authConfig.url if the
\* strategy supplied one, this.serverUrl otherwise, with
\* authConfig.protocols; this.serverUrl alone when no strategy is configured
socketTarget(auth) ==
  IF authStrategy
  THEN AuthUrl(auth, IF auth = "url" THEN "auth" ELSE "server")
  ELSE Url("server")

\* the body of connect(), run by the caller (op = "connect") or by the
\* retry timer (op = "timer")
connect(op, auth, ctor) ==
  IF connectBusy THEN
    /\ lastOp' = Op(op, "false", FALSE, NoArg, NULL)
    /\ trace' = <<>>
    /\ UNCHANGED <<socket, readyState, listeners>>
  ELSE IF (authStrategy /\ auth \in {"throws", "undefined"}) \/ ctor = "throws" THEN
    LET r == triggerEvent("error", ErrorData("connectionError")) IN
    /\ trace' = <<r>>
    /\ lastOp' = Op(op, IF r.threw THEN "throw" ELSE "false", authStrategy, NoArg, NULL)
    /\ UNCHANGED <<socket, readyState, listeners>>
  ELSE
    /\ NumHandles < MaxHandles
    /\ LET h == NumHandles + 1 IN
       /\ socket' = h
       /\ readyState' = [readyState EXCEPT ![h] = "CONNECTING"]
       /\ listeners' = [listeners EXCEPT ![h] = 1]
       /\ lastOp' = Op(op, "true", authStrategy, socketTarget(auth), h)
    /\ trace' = <<>>

Connect(auth, ctor) ==
  /\ connect("connect", auth, ctor)
  /\ UNCHANGED <<connected, reconnectAttempts, autoReconnect, authStrategy,
                 timers, eventHandlers, closures>>
  /\ UNCHANGED <<slotVars, cmdVars, histVars>>
  /\ UNCHANGED reactVars

\* the callback of setTimeout(() => this.connect(), delay)
RemoveAt(s, i) == SubSeq(s, 1, i - 1) \o SubSeq(s, i + 1, Len(s))

\* timer callback that does nothing: the retry is dropped when it is due
TimerFire_Drops(i, auth, ctor) ==
  /\ i \in 1..Len(timers)
  /\ timers' = RemoveAt(timers, i)
  /\ lastOp' = Op("timer", "none", FALSE, NoArg, NULL)
  /\ trace' = <<>>
  /\ UNCHANGED <<socket, readyState, listeners>>
  /\ UNCHANGED <<connected, reconnectAttempts, autoReconnect, authStrategy,
                 eventHandlers, closures>>
  /\ UNCHANGED <<slotVars, cmdVars, histVars>>
  /\ UNCHANGED reactVars

TimerFire(i, auth, ctor) ==
  /\ i \in 1..Len(timers)
  /\ timers' = RemoveAt(timers, i)
  /\ connect("timer", auth, ctor)
  /\ UNCHANGED <<connected, reconnectAttempts, autoReconnect, authStrategy,
                 eventHandlers, closures>>
  /\ UNCHANGED <<slotVars, cmdVars, histVars>>
  /\ UNCHANGED reactVars

\* ------------------------------------------------------------ disconnect
\* WebSocket.close(): an opening or open socket starts closing, a closing
\* or closed one is left as it is
closeSocket(rs) == IF rs \in {"CONNECTING", "OPEN"} THEN "CLOSING" ELSE rs

\* disconnect() that keeps the reference to the handle it closed
Disconnect_KeepsSocket ==
  /\ IF socket # NULL THEN
       /\ autoReconnect' = FALSE
       /\ readyState' = [readyState EXCEPT ![socket] = closeSocket(@)]
       /\ socket' = socket
       /\ disconnectCalled' = TRUE
       /\ closeRequested' = closeRequested \cup {socket}
     ELSE
       UNCHANGED <<autoReconnect, readyState, socket, disconnectCalled, closeRequested>>
  /\ lastOp' = Op("disconnect", "none", FALSE, NoArg, socket)
  /\ trace' = <<>>
  /\ UNCHANGED <<listeners, connected, reconnectAttempts, authStrategy, timers,
                 eventHandlers, closures>>
  /\ UNCHANGED <<slotVars, cmdVars, everOpened, retriesScheduled, retriesSinceOpen>>
  /\ UNCHANGED reactVars

Disconnect ==
  /\ IF socket # NULL THEN
       /\ autoReconnect' = FALSE
       /\ readyState' = [readyState EXCEPT ![socket] = closeSocket(@)]
       /\ socket' = NULL
       /\ disconnectCalled' = TRUE
       /\ closeRequested' = closeRequested \cup {socket}
     ELSE
       UNCHANGED <<autoReconnect, readyState, socket, disconnectCalled, closeRequested>>
  /\ lastOp' = Op("disconnect", "none", FALSE, NoArg, socket)
  /\ trace' = <<>>
  /\ UNCHANGED <<listeners, connected, reconnectAttempts, authStrategy, timers,
                 eventHandlers, closures>>
  /\ UNCHANGED <<slotVars, cmdVars, everOpened, retriesScheduled, retriesSinceOpen>>
  /\ UNCHANGED reactVars

\* ----------------------------------------------- transport event handlers
\* 'open' listener that leaves the reconnect counter as it is
TransportOpen_NoReset(h) ==
  /\ readyState[h] = "CONNECTING"
  /\ listeners[h] = 1
  /\ readyState' = [readyState EXCEPT ![h] = "OPEN"]
  /\ connected' = TRUE
  /\ reconnectAttempts' = reconnectAttempts
  /\ LET r == triggerEvent("connected", NoData) IN
     /\ trace' = <<r>>
     /\ lastOp' = Op("open", IF r.threw THEN "throw" ELSE "none", FALSE, NoArg, h)
  /\ everOpened' = TRUE
  /\ retriesSinceOpen' = 0
  /\ UNCHANGED <<socket, listeners, autoReconnect, authStrategy, timers,
                 eventHandlers, closures>>
  /\ UNCHANGED <<slotVars, cmdVars, retriesScheduled, disconnectCalled, closeRequested>>
  /\ UNCHANGED reactVars

\* 'open' listener
TransportOpen(h) ==
  /\ readyState[h] = "CONNECTING"
  /\ listeners[h] = 1
  /\ readyState' = [readyState EXCEPT ![h] = "OPEN"]
  /\ connected' = TRUE
  /\ reconnectAttempts' = 0
  /\ LET r == triggerEvent("connected", NoData) IN
     /\ trace' = <<r>>
     /\ lastOp' = Op("open", IF r.threw THEN "throw" ELSE "none", FALSE, NoArg, h)
  /\ everOpened' = TRUE
  /\ retriesSinceOpen' = 0
  /\ UNCHANGED <<socket, listeners, autoReconnect, authStrategy, timers,
                 eventHandlers, closures>>
  /\ UNCHANGED <<slotVars, cmdVars, retriesScheduled, disconnectCalled, closeRequested>>
  /\ UNCHANGED reactVars

\* Math.pow(1.5, n) as the fraction 3^n / 2^n
RECURSIVE Power(_, _)
Power(b, n) == IF n = 0 THEN 1 ELSE b * Power(b, n - 1)

\* retryDelay with the exponent off by one: Math.pow(1.5, attempts)
retryDelay_ExponentOffByOne(attempts) ==
  [num |-> reconnectDelay * Power(3, attempts), den |-> Power(2, attempts)]

\* reconnectDelay * Math.pow(1.5, attempts - 1) as numerator and denominator
retryDelay(attempts) ==
  [num |-> reconnectDelay * Power(3, attempts - 1), den |-> Power(2, attempts - 1)]

\* shouldReconnect that never looks at the counter
shouldReconnect_FlagOnly == autoReconnect

\* shouldReconnect with <= in place of <
shouldReconnect_Inclusive == autoReconnect /\ reconnectAttempts <= maxReconnectAttempts

\* the reconnection test of the 'close' listener
shouldReconnect == autoReconnect /\ reconnectAttempts < maxReconnectAttempts

\* 'close' listener
TransportClose(h, code) ==
  /\ readyState[h] \in {"CONNECTING", "OPEN", "CLOSING"}
  /\ listeners[h] = 1
  /\ readyState' = [readyState EXCEPT ![h] = "CLOSED"]
  /\ connected' = FALSE
  /\ LET r == triggerEvent("disconnected", CloseData(code)) IN
     /\ trace' = <<r>>
     /\ IF ~r.threw /\ shouldReconnect THEN
          /\ reconnectAttempts' = reconnectAttempts + 1
          /\ timers' = Append(timers, [delay |-> retryDelay(reconnectAttempts + 1),
                                       k |-> retriesSinceOpen + 1])
          /\ retriesScheduled' = retriesScheduled + 1
          /\ retriesSinceOpen' = retriesSinceOpen + 1
        ELSE
          UNCHANGED <<reconnectAttempts, timers, retriesScheduled, retriesSinceOpen>>
     /\ lastOp' = Op("close", IF r.threw THEN "throw" ELSE "none", FALSE, NoArg, h)
  /\ UNCHANGED <<socket, listeners, autoReconnect, authStrategy, eventHandlers, closures>>
  /\ UNCHANGED <<slotVars, cmdVars, everOpened, disconnectCalled, closeRequested>>
  /\ UNCHANGED reactVars

\* 'error' listener that also gives the connection up: clears connected
\* and closes the handle
TransportError_ClosesHandle(h) ==
  /\ readyState[h] \in {"CONNECTING", "OPEN", "CLOSING"}
  /\ listeners[h] = 1
  /\ LET r == triggerEvent("error", ErrorData("socketError")) IN
     /\ trace' = <<r>>
     /\ lastOp' = Op("error", IF r.threw THEN "throw" ELSE "none", FALSE, NoArg, h)
  /\ connected' = FALSE
  /\ readyState' = [readyState EXCEPT ![h] = closeSocket(@)]
  /\ UNCHANGED <<socket, listeners, reconnectAttempts, autoReconnect, timers,
                 authStrategy, eventHandlers, closures>>
  /\ UNCHANGED <<slotVars, cmdVars, histVars>>
  /\ UNCHANGED reactVars

\* 'error' listener
TransportError(h) ==
  /\ readyState[h] \in {"CONNECTING", "OPEN", "CLOSING"}
  /\ listeners[h] = 1
  /\ LET r == triggerEvent("error", ErrorData("socketError")) IN
     /\ trace' = <<r>>
     /\ lastOp' = Op("error", IF r.threw THEN "throw" ELSE "none", FALSE, NoArg, h)
  /\ UNCHANGED <<connVars, authStrategy, eventHandlers, closures>>
  /\ UNCHANGED <<slotVars, cmdVars, histVars>>
  /\ UNCHANGED reactVars

\* -------------------------------------------------------------- on / off
on(event, callback) ==
  /\ Registrations < MaxListeners
  /\ <<event, callback>> \in closures \/ Cardinality(closures) < MaxListeners
  /\ eventHandlers' = [eventHandlers EXCEPT ![event] = Append(@, callback)]
  /\ closures' = closures \cup {<<event, callback>>}
  /\ lastOp' = Op("on", "none", FALSE, Listener(event, callback), NULL)
  /\ trace' = <<>>
  /\ UNCHANGED <<connVars, authStrategy>>
  /\ UNCHANGED <<slotVars, cmdVars, histVars>>
  /\ UNCHANGED reactVars

\* removeListener that drops the first registration of the list, whichever
\* callback it holds
removeListener_First(list, callback) ==
  IF list = <<>> THEN list ELSE Tail(list)

\* the closure on() returned: filter(cb => cb !== callback)
removeListener(list, callback) ==
  LET Keep(cb) == cb # callback IN SelectSeq(list, Keep)

Unsubscribe(event, callback) ==
  /\ <<event, callback>> \in closures
  /\ eventHandlers' = [eventHandlers EXCEPT ![event] = removeListener(@, callback)]
  /\ lastOp' = Op("off", "none", FALSE, Listener(event, callback), NULL)
  /\ trace' = <<>>
  /\ UNCHANGED <<connVars, authStrategy, closures>>
  /\ UNCHANGED <<slotVars, cmdVars, histVars>>
  /\ UNCHANGED reactVars

\* ----------------------------------------------------------- sendCommand
\* sendAllowed testing the socket reference in place of the connected flag
sendAllowed_SocketExists == socket # NULL

\* the guard of sendCommand: `if (!this.connected) return false`
sendAllowed == connected

\* socket.send() throws on a null socket (TypeError) and on a socket that is
\* still CONNECTING (InvalidStateError); on an OPEN, CLOSING or CLOSED socket
\* it returns normally
sendThrows == socket = NULL \/ readyState[socket] = "CONNECTING"

\* the command of a sendCommand call that got past the guard: whether
\* JSON.stringify(command) returns ("ok") or throws ("throws")
Command(serial, action) == [json |-> serial, type |-> action, body |-> 0]

\* action names of commands, and the data objects sent with them: "plain"
\* has no key named action, "action" has one, with the value "other"
CommandActions == {"joinTable"}
CommandData == {"plain", "action"}

\* the command object {action, ...data}, its action field: a key of data
\* written after `action` replaces it
spread(action, data) == [action |-> IF data = "action" THEN "other" ELSE action]

\* sendCommand whose catch block returns true as well
SendCommand_CatchReturnsTrue(serial, action, data) ==
  /\ nCmd < MaxCommands
  /\ nCmd' = nCmd + 1
  /\ IF ~sendAllowed THEN
       /\ dropped' = dropped \cup {nCmd + 1}
       /\ UNCHANGED <<written, payloads>>
       /\ lastOp' = Op("sendCommand", "false", FALSE, NoArg, NULL)
     ELSE IF serial = "throws" \/ sendThrows THEN
       /\ UNCHANGED <<dropped, written, payloads>>
       /\ lastOp' = Op("sendCommand", "true", FALSE, Command(serial, action), socket)
     ELSE
       /\ written' = written \cup {<<nCmd + 1, socket>>}
       /\ payloads' = payloads \cup {<<nCmd + 1, action, spread(action, data).action>>}
       /\ dropped' = dropped
       /\ lastOp' = Op("sendCommand", "true", FALSE, Command(serial, action), socket)
  /\ trace' = <<>>
  /\ UNCHANGED <<connVars, authStrategy, eventHandlers, closures>>
  /\ UNCHANGED <<slotVars, histVars>>
  /\ UNCHANGED reactVars

SendCommand(serial, action, data) ==
  /\ nCmd < MaxCommands
  /\ nCmd' = nCmd + 1
  /\ IF ~sendAllowed THEN
       /\ dropped' = dropped \cup {nCmd + 1}
       /\ UNCHANGED <<written, payloads>>
       /\ lastOp' = Op("sendCommand", "false", FALSE, NoArg, NULL)
     ELSE IF serial = "throws" \/ sendThrows THEN
       /\ UNCHANGED <<dropped, written, payloads>>
       /\ lastOp' = Op("sendCommand", "false", FALSE, Command(serial, action), socket)
     ELSE
       /\ written' = written \cup {<<nCmd + 1, socket>>}
       /\ payloads' = payloads \cup {<<nCmd + 1, action, spread(action, data).action>>}
       /\ dropped' = dropped
       /\ lastOp' = Op("sendCommand", "true", FALSE, Command(serial, action), socket)
  /\ trace' = <<>>
  /\ UNCHANGED <<connVars, authStrategy, eventHandlers, closures>>
  /\ UNCHANGED <<slotVars, histVars>>
  /\ UNCHANGED reactVars

\* ------------------------------------------------------- inbound messages
\* the text of a frame: not JSON at all, the JSON text `null`, or a JSON
\* object with a type field and a body
Frame(json, type, body) == [json |-> json, type |-> type, body |-> body]

Frames ==
  {Frame("invalid", "null", 0), Frame("null", "null", 0)}
    \cup {Frame("object", t, b) : t \in MessageTypes, b \in 1..MaxBody}

\* JSON.parse(event.data)
JSONparse(text) ==
  IF text.json = "invalid" THEN [ok |-> FALSE, value |-> NoMessage]
  ELSE IF text.json = "null" THEN [ok |-> TRUE, value |-> NoMessage]
  ELSE [ok |-> TRUE, value |-> [type |-> text.type, body |-> text.body]]

\* the switch of handleMessage
cacheSlot(slot, type, message) == IF message.type = type THEN message ELSE slot

\* handleMessage that fires the two events first and caches the slot after
handleMessage_FiresBeforeCaching(message) ==
  IF message = NoMessage THEN
    [player |-> playerState, lobby |-> lobbyState, table |-> tableState,
     fired |-> <<>>, threw |-> TRUE]
  ELSE
    LET cached == [player |-> cacheSlot(playerState, PLAYER_STATE, message),
                   lobby |-> cacheSlot(lobbyState, LOBBY_STATE, message),
                   table |-> cacheSlot(tableState, TABLE_STATE, message)]
        r1 == triggerEvent(message.type, message) @@ [seen |-> [player |-> playerState, lobby |-> lobbyState, table |-> tableState]]
        r2 == triggerEvent("message", message) @@ [seen |-> [player |-> playerState, lobby |-> lobbyState, table |-> tableState]]
    IN [player |-> cached.player,
        lobby |-> cached.lobby,
        table |-> cached.table,
        fired |-> IF r1.threw THEN <<r1>> ELSE <<r1, r2>>,
        threw |-> r1.threw \/ r2.threw]

\* handleMessage(message): the slots after it, the events it fired and
\* whether it threw (message.type of null throws before anything happens).
\* Each fired event carries in `seen` the slots its listeners read while
\* they run.
handleMessage(message) ==
  IF message = NoMessage THEN
    [player |-> playerState, lobby |-> lobbyState, table |-> tableState,
     fired |-> <<>>, threw |-> TRUE]
  ELSE
    LET cached == [player |-> cacheSlot(playerState, PLAYER_STATE, message),
                   lobby |-> cacheSlot(lobbyState, LOBBY_STATE, message),
                   table |-> cacheSlot(tableState, TABLE_STATE, message)]
        r1 == triggerEvent(message.type, message) @@ [seen |-> cached]
        r2 == triggerEvent("message", message) @@ [seen |-> cached]
    IN [player |-> cached.player,
        lobby |-> cached.lobby,
        table |-> cached.table,
        fired |-> IF r1.threw THEN <<r1>> ELSE <<r1, r2>>,
        threw |-> r1.threw \/ r2.threw]

\* onParseError that only logs, firing no event
onParseError_Silent == <<>>

\* the catch block of the 'message' listener
onParseError == <<triggerEvent("error", ErrorData("parseError"))>>

\* 'message' listener
TransportMessage(h, text) ==
  /\ readyState[h] = "OPEN"
  /\ listeners[h] = 1
  /\ LET p == JSONparse(text) IN
     IF ~p.ok THEN
       /\ trace' = onParseError
       /\ UNCHANGED slotVars
     ELSE
       LET m == handleMessage(p.value) IN
       /\ playerState' = m.player
       /\ lobbyState' = m.lobby
       /\ tableState' = m.table
       /\ trace' = IF m.threw THEN m.fired \o onParseError ELSE m.fired
  /\ lastOp' = Op("message",
                  IF \E i \in 1..Len(trace') : i = Len(trace') /\ trace'[i].threw
                  THEN "throw" ELSE "none",
                  FALSE, text, h)
  /\ UNCHANGED <<connVars, authStrategy, eventHandlers, closures>>
  /\ UNCHANGED <<cmdVars, histVars>>
  /\ UNCHANGED reactVars

\* ------------------------------------------------- provider and useShoehive
\* the two provider components of the repository: "context" is
\* context/ShoehiveProvider.js (client kept with useState, handlers
\* registered with client.on), "hooks" is the provider of the hooks
\* directory (client kept in a ref)
ProviderKinds == {"context", "hooks"}

\* the handlers the listener effect registers, by event name; they only set
\* React state and return
ProviderHandlers ==
  [e \in {"connected", "disconnected", PLAYER_STATE, LOBBY_STATE, TABLE_STATE} |->
     IF e = "connected" THEN "connectedHandler"
     ELSE IF e = "disconnected" THEN "disconnectedHandler"
     ELSE IF e = PLAYER_STATE THEN "playerStateHandler"
     ELSE IF e = LOBBY_STATE THEN "lobbyStateHandler"
     ELSE "tableStateHandler"]

\* first effect of the "context" provider, on mount and after its cleanup:
\* new ShoehiveClient(serverUrl, {autoReconnect: true, ...});
\* setClient(newClient). The variables of the client are those of the
\* client the provider holds, so they start afresh; the handles and timers
\* of the client it replaces stay with that client (their listeners are
\* detached from this one).
InitEffect ==
  /\ provider.kind = "context"
  /\ provider.phase \in {"unmounted", "cleaned"}
  /\ provider' = [provider EXCEPT !.phase = "created"]
  /\ socket' = NULL
  /\ listeners' = [h \in Handles |-> 0]
  /\ connected' = FALSE
  /\ reconnectAttempts' = 0
  /\ autoReconnect' = TRUE
  /\ timers' = <<>>
  /\ eventHandlers' = [e \in EventNames |-> <<>>]
  /\ playerState' = NoMessage
  /\ lobbyState' = NoMessage
  /\ tableState' = NoMessage
  /\ lastOp' = Op("initEffect", "none", FALSE, NoArg, NULL)
  /\ trace' = <<>>
  /\ UNCHANGED <<readyState, authStrategy, closures>>
  /\ UNCHANGED <<cmdVars, histVars, hookCall>>

\* cleanup of the first effect of the "context" provider:
\* newClient.disconnect()
ClientCleanup ==
  /\ provider.kind = "context"
  /\ provider.phase \in {"created", "mounted"}
  /\ provider.cleanups < MaxCleanups
  /\ provider' = [provider EXCEPT !.phase = "cleaned", !.cleanups = @ + 1]
  /\ IF socket # NULL THEN
       /\ autoReconnect' = FALSE
       /\ readyState' = [readyState EXCEPT ![socket] = closeSocket(@)]
       /\ socket' = NULL
       /\ disconnectCalled' = TRUE
       /\ closeRequested' = closeRequested \cup {socket}
     ELSE
       UNCHANGED <<autoReconnect, readyState, socket, disconnectCalled, closeRequested>>
  /\ lastOp' = Op("clientCleanup", "none", FALSE, NoArg, socket)
  /\ trace' = <<>>
  /\ UNCHANGED <<listeners, connected, reconnectAttempts, authStrategy, timers,
                 eventHandlers, closures>>
  /\ UNCHANGED <<slotVars, cmdVars, everOpened, retriesScheduled, retriesSinceOpen>>
  /\ UNCHANGED hookCall

\* cleanup of the listener effect, run before that effect runs again on the
\* same client (a change of autoConnect, a development double invocation):
\* five more client.on(...) calls with the same handlers
ListenerCleanup ==
  /\ provider.kind = "context"
  /\ provider.phase = "mounted"
  /\ provider.cleanups < MaxCleanups
  /\ provider' = [provider EXCEPT !.phase = "created", !.cleanups = @ + 1]
  /\ eventHandlers' =
       [e \in EventNames |->
          IF e \in DOMAIN ProviderHandlers
          THEN Append(eventHandlers[e], ProviderHandlers[e])
          ELSE eventHandlers[e]]
  /\ lastOp' = Op("listenerCleanup", "none", FALSE, NoArg, NULL)
  /\ trace' = <<>>
  /\ UNCHANGED <<connVars, authStrategy, closures>>
  /\ UNCHANGED <<slotVars, cmdVars, histVars, hookCall>>

\* second effect of the "context" provider, run once the client is set: the
\* five client.on(...) calls, then client.connect() if autoConnect
ListenerEffect ==
  /\ provider.kind = "context"
  /\ provider.phase = "created"
  /\ provider' = [provider EXCEPT !.phase = "mounted"]
  /\ eventHandlers' =
       [e \in EventNames |->
          IF e \in DOMAIN ProviderHandlers
          THEN Append(eventHandlers[e], ProviderHandlers[e])
          ELSE eventHandlers[e]]
  /\ IF provider.autoConnect THEN
       connect("listenerEffect", "url", "ok")
     ELSE
       /\ lastOp' = Op("listenerEffect", "none", FALSE, NoArg, NULL)
       /\ trace' = <<>>
       /\ UNCHANGED <<socket, readyState, listeners>>
  /\ UNCHANGED <<connected, reconnectAttempts, autoReconnect, authStrategy,
                 timers, closures>>
  /\ UNCHANGED <<slotVars, cmdVars, histVars, hookCall>>

\* the effect of the "hooks" provider. On mount clientRef.current is null,
\* so it builds the client (autoConnect goes into the client's options,
\* which the client never reads), sets the on...Change properties and calls
\* connect(); when it runs again after its cleanup the ref still holds the
\* client and the effect does nothing
HooksEffect ==
  /\ provider.kind = "hooks"
  /\ provider.phase \in {"unmounted", "cleaned"}
  /\ provider' = [provider EXCEPT !.phase = "mounted"]
  /\ IF provider.phase = "unmounted" THEN
       connect("hooksEffect", "url", "ok")
     ELSE
       /\ lastOp' = Op("hooksEffect", "none", FALSE, NoArg, NULL)
       /\ trace' = <<>>
       /\ UNCHANGED <<socket, readyState, listeners>>
  /\ UNCHANGED <<connected, reconnectAttempts, autoReconnect, authStrategy,
                 timers, eventHandlers, closures>>
  /\ UNCHANGED <<slotVars, cmdVars, histVars, hookCall>>

\* cleanup of the effect of the "hooks" provider:
\* clientRef.current.disconnect(), the disconnect() of the client of the
\* hooks directory, which closes the socket and keeps the reference to it
HooksCleanup ==
  /\ provider.kind = "hooks"
  /\ provider.phase = "mounted"
  /\ provider.cleanups < MaxCleanups
  /\ provider' = [provider EXCEPT !.phase = "cleaned", !.cleanups = @ + 1]
  /\ IF socket # NULL THEN
       /\ autoReconnect' = FALSE
       /\ readyState' = [readyState EXCEPT ![socket] = closeSocket(@)]
       /\ disconnectCalled' = TRUE
       /\ closeRequested' = closeRequested \cup {socket}
     ELSE
       UNCHANGED <<autoReconnect, readyState, disconnectCalled, closeRequested>>
  /\ lastOp' = Op("hooksCleanup", "none", FALSE, NoArg, socket)
  /\ trace' = <<>>
  /\ UNCHANGED <<socket, listeners, connected, reconnectAttempts, authStrategy, timers,
                 eventHandlers, closures>>
  /\ UNCHANGED <<slotVars, cmdVars, everOpened, retriesScheduled, retriesSinceOpen>>
  /\ UNCHANGED hookCall

\* createContext(...): the value useContext returns outside every provider.
\* context/ShoehiveContext.js passes an object of defaults, the hooks
\* directory passes null
createContext(kind) == IF kind = "context" THEN "defaults" ELSE "null"

\* useContext(ShoehiveContext) in a component inside or outside the
\* provider's subtree; the provider always supplies an object
useContext(inside) == IF inside THEN "value" ELSE createContext(provider.kind)

\* useShoehive(): `if (!context) throw ...; return context`
useShoehive(inside) ==
  LET context == useContext(inside)
  IN IF context = "null" THEN "throw" ELSE context

UseShoehive(inside) ==
  /\ hookCall' = [inside |-> inside, result |-> useShoehive(inside)]
  /\ lastOp' = Op("useShoehive", IF useShoehive(inside) = "throw" THEN "throw" ELSE "none",
                  FALSE, NoArg, NULL)
  /\ trace' = <<>>
  /\ UNCHANGED <<connVars, authStrategy, eventHandlers, closures>>
  /\ UNCHANGED <<slotVars, cmdVars, histVars, provider>>

\* --------------------------------------------------------- specifications
\* the connection life cycle and sendCommand, no listener registered
Next ==
  \/ \E a \in AuthOutcomes, c \in CtorOutcomes : Connect(a, c)
  \/ \E i \in 1..MaxHandles, a \in AuthOutcomes, c \in CtorOutcomes : TimerFire(i, a, c)
  \/ Disconnect
  \/ \E h \in Handles : TransportOpen(h)
  \/ \E h \in Handles, code \in CloseCodes : TransportClose(h, code)
  \/ \E h \in Handles : TransportError(h)
  \/ \E s \in {"ok", "throws"} : SendCommand(s, "joinTable", "plain")

Spec == Init /\ [][Next]_vars

\* a client built with autoReconnect: false and no authentication strategy
InitNoRetry ==
  /\ Init
  /\ autoReconnect = FALSE
  /\ authStrategy = FALSE

\* listeners on the life-cycle events around connect, open, close and error
NextEvents ==
  \/ \E c \in CtorOutcomes : Connect("url", c)
  \/ \E h \in Handles : TransportOpen(h)
  \/ \E h \in Handles : TransportClose(h, 1000)
  \/ \E h \in Handles : TransportError(h)
  \/ \E s \in {"ok", "throws"} : SendCommand(s, "joinTable", "plain")
  \/ \E e \in LifecycleEvents, cb \in Callbacks : on(e, cb)
  \/ \E e \in LifecycleEvents, cb \in Callbacks : Unsubscribe(e, cb)

SpecEvents == InitNoRetry /\ [][NextEvents]_vars

\* events a listener is registered for while messages arrive
MessageListenEvents == {PLAYER_STATE, "custom", "connected", "message", "error"}

\* inbound frames on one connection, with listeners
NextMessages ==
  \/ Connect("url", "ok")
  \/ \E h \in Handles : TransportOpen(h)
  \/ \E h \in Handles, text \in Frames : TransportMessage(h, text)
  \/ \E e \in MessageListenEvents, cb \in Callbacks : on(e, cb)

SpecMessages == InitNoRetry /\ [][NextMessages]_vars

\* a provider about to mount, of either kind and with either value of the
\* autoConnect prop; the client it will build has autoReconnect on
InitProvider ==
  /\ constructor
  /\ autoReconnect = TRUE
  /\ provider \in [kind : ProviderKinds, autoConnect : BOOLEAN, phase : {"unmounted"},
                   cleanups : {0}]
  /\ hookCall = NoCall

\* the provider mounts, its effects are cleaned up and run again,
\* components call useShoehive, and the client it holds lives on: connect()
\* from the context value, transport events, retries
NextProvider ==
  \/ InitEffect
  \/ ClientCleanup
  \/ ListenerEffect
  \/ ListenerCleanup
  \/ HooksEffect
  \/ HooksCleanup
  \/ \E inside \in BOOLEAN : UseShoehive(inside)
  \/ provider.phase = "mounted" /\ Connect("url", "ok")
  \/ \E i \in 1..MaxHandles : TimerFire(i, "url", "ok")
  \/ \E h \in Handles : TransportOpen(h)
  \/ \E h \in Handles : TransportClose(h, 1006)

SpecProvider == InitProvider /\ [][NextProvider]_vars

\* the life cycle with retries while listeners of "disconnected" are
\* registered
NextRetryEvents ==
  \/ Connect("url", "ok")
  \/ \E i \in 1..MaxHandles : TimerFire(i, "url", "ok")
  \/ \E h \in Handles : TransportOpen(h)
  \/ \E h \in Handles, code \in CloseCodes : TransportClose(h, code)
  \/ \E cb \in Callbacks : on("disconnected", cb)

\* a client with no authentication strategy, autoReconnect on or off
InitRetryEvents ==
  /\ Init
  /\ authStrategy = FALSE

SpecRetryEvents == InitRetryEvents /\ [][NextRetryEvents]_vars

\* a client with autoReconnect on that is never disconnected: connect(),
\* sendCommand(), retry timers, and a network on which an opening handle opens or fails
\* and an open handle may drop. A close that schedules a retry, and a manual
\* connect(), are taken only while MaxHandles leaves room for the handle
\* of every pending retry.
OpeningResolves ==
  \E h \in Handles :
    /\ readyState[h] = "CONNECTING"
    /\ \/ TransportOpen(h)
       \/ /\ ~shouldReconnect \/ NumHandles + Len(timers) < MaxHandles
          /\ \E code \in CloseCodes : TransportClose(h, code)

OpenDrops ==
  \E h \in Handles :
    /\ readyState[h] = "OPEN"
    /\ ~shouldReconnect \/ NumHandles + Len(timers) < MaxHandles
    /\ \E code \in CloseCodes : TransportClose(h, code)

NextLive ==
  \/ NumHandles + Len(timers) < MaxHandles /\ Connect("url", "ok")
  \/ \E i \in 1..MaxHandles : TimerFire(i, "url", "ok")
  \/ OpeningResolves
  \/ OpenDrops
  \/ \E h \in Handles : TransportError(h)
  \/ \E s \in {"ok", "throws"} : SendCommand(s, "joinTable", "plain")

\* a client built with autoReconnect on
InitLive ==
  /\ Init
  /\ autoReconnect = TRUE

\* fairness: a timer that is due fires (setTimeout), and the transport
\* ends every opening with an open or a close event
SpecLive ==
  /\ InitLive
  /\ [][NextLive]_vars
  /\ WF_vars(\E i \in 1..MaxHandles : TimerFire(i, "url", "ok"))
  /\ WF_vars(OpeningResolves)

\* commands of every shape on a connection that opens and closes
NextCommands ==
  \/ Connect("url", "ok")
  \/ Disconnect
  \/ \E h \in Handles : TransportOpen(h)
  \/ \E h \in Handles : TransportClose(h, 1000)
  \/ \E s \in {"ok", "throws"}, a \in CommandActions, d \in CommandData :
       SendCommand(s, a, d)

SpecCommands == InitNoRetry /\ [][NextCommands]_vars

\* ================================================================ claims
\* C1: after disconnect() has closed a handle, a retry timer that fires
\* never opens a new transport handle, also when it was scheduled by a
\* close that happened before the disconnect().
C1_NoReconnectAfterDisconnect ==
  [][(disconnectCalled /\ lastOp'.op = "timer") => NumHandles' = NumHandles]_vars

\* C2: in every reachable state at most one transport handle of the
\* Connection is opening or open.
C2_AtMostOneLiveHandle == Cardinality(LiveHandles) <= 1

\* C2 witness: a second handle is live while an earlier one, given up by
\* disconnect(), is still closing.
C2_Witness ==
  /\ Cardinality(LiveHandles) = 1
  /\ \E h \in Handles : readyState[h] = "CLOSING"
  /\ socket \in LiveHandles

\* C3: connect() while the current handle is opening or open returns false
\* and changes nothing: handle reference, connected flag, reconnect counter
\* and transport listeners stay, the authentication strategy is not invoked
\* and no event fires. The same holds for the connect() of a retry timer.
C3_BusyConnectIsNoOp ==
  [][((socket # NULL /\ readyState[socket] \in {"CONNECTING", "OPEN"})
        /\ lastOp'.op \in {"connect", "timer"})
     => (/\ lastOp'.result = "false"
         /\ lastOp'.auth = FALSE
         /\ trace' = <<>>
         /\ UNCHANGED <<socket, readyState, listeners, connected,
                        reconnectAttempts, autoReconnect, eventHandlers>>)]_vars

\* C3 witness: connect() was refused while the current handle was opening.
C3_Witness ==
  /\ lastOp.op = "connect"
  /\ lastOp.result = "false"
  /\ trace = <<>>
  /\ socket # NULL
  /\ readyState[socket] = "CONNECTING"

\* C4: while connected is false, sendCommand returns false and writes
\* nothing to the transport, and a command it refused is never written
\* later, whatever connection is made afterwards.
C4_DisconnectedSendIsDropped ==
  /\ [](\A id \in dropped : \A h \in Handles : <<id, h>> \notin written)
  /\ [][(~connected /\ lastOp'.op = "sendCommand" /\ nCmd' = nCmd + 1)
        => (/\ lastOp'.result = "false"
            /\ written' = written
            /\ nCmd' \in dropped')]_vars

\* C4 witness: the first command was refused while disconnected, the second
\* was written on a later open connection, and the first never was.
C4_Witness ==
  /\ 1 \in dropped
  /\ \E h \in Handles : <<2, h>> \in written /\ readyState[h] = "OPEN"
  /\ \A h \in Handles : <<1, h>> \notin written

SlotOf(type) ==
  IF type = PLAYER_STATE THEN playerState
  ELSE IF type = LOBBY_STATE THEN lobbyState
  ELSE tableState

\* C5: after an inbound JSON object of a recognized type is handled, the
\* slot of that type equals the Message, and the type-named event and the
\* "message" event each fired once with the Message, running every listener
\* registered for them.
C5_RecognizedMessageCachedAndFired ==
  (lastOp.op = "message" /\ lastOp.arg.json = "object"
     /\ lastOp.arg.type \in RecognizedTypes)
  => LET msg == [type |-> lastOp.arg.type, body |-> lastOp.arg.body]
         typed == {i \in 1..Len(trace) : trace[i].event = msg.type}
         generic == {i \in 1..Len(trace) : trace[i].event = "message"}
     IN /\ SlotOf(msg.type) = msg
        /\ Cardinality(typed) = 1
        /\ Cardinality(generic) = 1
        /\ \A i \in typed \cup generic :
             /\ trace[i].data = msg
             /\ trace[i].invoked = eventHandlers[trace[i].event]

\* C6: an inbound payload that is not valid JSON changes none of the three
\* slots and fires exactly one event, "error" of kind parseError; no
\* type-named and no "message" event fires.
C6_MalformedPayloadDropped ==
  [][(lastOp'.op = "message" /\ lastOp'.arg.json = "invalid")
     => (/\ UNCHANGED <<playerState, lobbyState, tableState>>
         /\ Len(trace') = 1
         /\ trace'[1].event = "error"
         /\ trace'[1].data = ErrorData("parseError"))]_vars

\* C6 witness: a malformed payload arrived after a player-state Message was
\* cached; the slot kept it and the one event fired is the parseError.
C6_Witness ==
  /\ lastOp.op = "message"
  /\ lastOp.arg.json = "invalid"
  /\ playerState # NoMessage
  /\ Len(trace) = 1
  /\ trace[1].data.type = "parseError"
  /\ trace[1].invoked # <<>>

ClosedHandles == {h \in Handles : readyState[h] = "CLOSED"}

Min(a, b) == IF a <= b THEN a ELSE b

\* C7: with auto-reconnect enabled and no attempt ever opening, the number
\* of retries scheduled is the number of closes so far up to
\* maxReconnectAttempts and never more: each close below the cap schedules
\* one retry, and a close at the cap schedules none and fires only
\* "disconnected".
C7_RetriesStopAtMax ==
  /\ []((autoReconnect /\ ~everOpened)
        => retriesScheduled = Min(Cardinality(ClosedHandles), maxReconnectAttempts))
  /\ [](~everOpened => retriesScheduled <= maxReconnectAttempts)
  /\ [][(lastOp'.op = "close" /\ reconnectAttempts = maxReconnectAttempts
           /\ readyState' # readyState)
        => (/\ timers' = timers
            /\ reconnectAttempts' = reconnectAttempts
            /\ Len(trace') = 1
            /\ trace'[1].event = "disconnected")]_vars

\* C7 witness: the initial attempt and maxReconnectAttempts retries all
\* closed without opening; the last close scheduled nothing.
C7_Witness ==
  /\ autoReconnect
  /\ ~everOpened
  /\ retriesScheduled = maxReconnectAttempts
  /\ reconnectAttempts = maxReconnectAttempts
  /\ Cardinality(ClosedHandles) = maxReconnectAttempts + 1
  /\ lastOp.op = "close"
  /\ timers = <<>>

\* C8: the k-th consecutive retry since the last open (or since
\* construction) is scheduled with delay reconnectDelay * 1.5^(k-1), that is
\* delay * 2^(k-1) = reconnectDelay * 3^(k-1), for 1 <= k <=
\* maxReconnectAttempts, and k is the value of the reconnect counter.
C8_BackoffDelay ==
  /\ [](\A i \in 1..Len(timers) :
          /\ timers[i].k \in 1..maxReconnectAttempts
          /\ timers[i].delay.num * Power(2, timers[i].k - 1)
               = reconnectDelay * Power(3, timers[i].k - 1) * timers[i].delay.den)
  /\ [][Len(timers') > Len(timers)
        => (/\ timers'[Len(timers')].k = reconnectAttempts'
            /\ reconnectAttempts' = retriesSinceOpen')]_vars

\* C8 witness: after an open the sequence restarted; the first retry at
\* reconnectDelay has fired and the second is pending at 1.5 * reconnectDelay.
C8_Witness ==
  /\ everOpened
  /\ retriesScheduled >= 3
  /\ \E i \in 1..Len(timers) :
       /\ timers[i].k = 2
       /\ 2 * timers[i].delay.num = 3 * reconnectDelay * timers[i].delay.den

Occurrences(list, cb) == LET Is(x) == x = cb IN Len(SelectSeq(list, Is))

\* C9: invoking the unsubscribe closure of callback A for an event removes
\* A from that event's list and leaves every other callback of that list,
\* every other event's list and every other closure as they were; a later
\* firing of the event runs the callbacks still registered, in order, so it
\* runs B (registered after A) and not A.
C9_UnsubscribeRemovesOnlyThatCallback ==
  /\ [][lastOp'.op = "off"
        => LET e == lastOp'.arg.type
               A == lastOp'.arg.json
           IN /\ Occurrences(eventHandlers'[e], A) = 0
              /\ \A B \in Callbacks \ {A} :
                   Occurrences(eventHandlers'[e], B) = Occurrences(eventHandlers[e], B)
              /\ \A e2 \in EventNames \ {e} : eventHandlers'[e2] = eventHandlers[e2]
              /\ closures' = closures]_vars
  /\ [](\A i \in 1..Len(trace) :
          LET list == eventHandlers[trace[i].event]
              ran == trace[i].invoked
          IN /\ \A cb \in Callbacks : Occurrences(list, cb) = 0 => Occurrences(ran, cb) = 0
             /\ \A j \in 1..Len(list) :
                  (\A m \in 1..(j - 1) : ~Throws(list[m]))
                    => (j <= Len(ran) /\ ran[j] = list[j]))

\* C9 witness: cbT and cbA were both registered for "connected", the closure
\* of cbT was invoked, and the next "connected" event ran cbA alone.
C9_Witness ==
  /\ {<<"connected", "cbT">>, <<"connected", "cbA">>} \subseteq closures
  /\ eventHandlers["connected"] = <<"cbA">>
  /\ lastOp.op = "open"
  /\ trace[1].event = "connected"
  /\ trace[1].invoked = <<"cbA">>

\* C10: connect() and sendCommand() return true or false and never throw to
\* the caller; a connect() that fails fires exactly one "error" event of
\* kind connectionError and leaves the handle reference, the connected flag
\* and the reconnect counter unchanged.
C10_PublicCallsNeverThrow ==
  [][lastOp'.op \in {"connect", "sendCommand"}
     => (/\ lastOp'.result \in {"true", "false"}
         /\ (lastOp'.op = "connect" /\ trace' # <<>>)
              => (/\ Len(trace') = 1
                  /\ trace'[1].event = "error"
                  /\ trace'[1].data = ErrorData("connectionError")
                  /\ UNCHANGED <<socket, connected, reconnectAttempts>>))]_vars

\* C11: disconnect() is idempotent. Called while no handle exists it changes
\* no state of the Connection and calls nothing on the transport; a second
\* disconnect() right after a first leaves the state the first one left; and
\* close() is requested at most once on any handle.
C11_DisconnectIdempotent ==
  [][lastOp'.op = "disconnect" =>
       /\ (socket = NULL \/ lastOp.op = "disconnect") =>
            /\ lastOp'.h = NULL
            /\ UNCHANGED <<connVars, authStrategy, eventHandlers, closures>>
            /\ UNCHANGED <<slotVars, cmdVars, closeRequested>>
       /\ lastOp'.h # NULL => lastOp'.h \notin closeRequested]_vars

\* C11 witness: disconnect() has just been called with no handle to close,
\* after an earlier disconnect() closed one.
C11_Witness ==
  /\ lastOp.op = "disconnect"
  /\ lastOp.h = NULL
  /\ closeRequested # {}

\* C12: useShoehive called outside the subtree of every ShoehiveProvider
\* throws 'useShoehive must be used within a ShoehiveProvider'.
C12_HookOutsideProviderThrows ==
  (hookCall.result # "none" /\ ~hookCall.inside) => hookCall.result = "throw"

\* C13: with autoConnect = false the provider's mount effects do not call
\* connect() and open no handle, and the first handle is opened by an
\* explicit connect().
C13_AutoConnectFalseOpensNothing ==
  [][~provider.autoConnect =>
       /\ lastOp'.op \in {"listenerEffect", "hooksEffect"} =>
            (lastOp'.result = "none" /\ NumHandles' = NumHandles)
       /\ (NumHandles = 0 /\ NumHandles' > 0) => lastOp'.op = "connect"]_vars

\* C14: every transport close clears connected and fires "disconnected"
\* once with the close code; then, if and only if auto-reconnect is enabled
\* and the counter is below maxReconnectAttempts, the counter grows by one
\* and exactly one retry timer is scheduled, otherwise counter and timers
\* stay. This holds whatever the "disconnected" listeners do.
C14_CloseSchedulesRetry ==
  [][lastOp'.op = "close" =>
       /\ connected' = FALSE
       /\ Len(trace') = 1
       /\ trace'[1].event = "disconnected"
       /\ \E code \in CloseCodes : trace'[1].data = CloseData(code)
       /\ IF autoReconnect /\ reconnectAttempts < maxReconnectAttempts
          THEN /\ reconnectAttempts' = reconnectAttempts + 1
               /\ Len(timers') = Len(timers) + 1
          ELSE UNCHANGED <<reconnectAttempts, timers>>]_vars

\* C15: every transport open sets connected, resets the reconnect counter
\* to 0 and fires "connected" exactly once with no payload; the state slots
\* and the subscription table stay as they were.
C15_OpenResetsAndFiresConnected ==
  [][lastOp'.op = "open" =>
       /\ connected' = TRUE
       /\ reconnectAttempts' = 0
       /\ Len(trace') = 1
       /\ trace'[1].event = "connected"
       /\ trace'[1].data = NoData
       /\ UNCHANGED <<slotVars, eventHandlers>>]_vars

\* C15 witness: a handle opened by a retry has just reached OPEN, the
\* counter the retries had raised is back at 0.
C15_Witness ==
  /\ lastOp.op = "open"
  /\ retriesScheduled > 0
  /\ connected
  /\ reconnectAttempts = 0
  /\ trace # <<>>

\* C16: a transport error fires exactly one "error" event of kind
\* socketError and changes nothing else: connected, the handle reference,
\* the reconnect counter and the auto-reconnect flag stay, close() is called
\* on no handle and no retry timer is scheduled.
C16_TransportErrorOnlyFiresEvent ==
  [][lastOp'.op = "error" =>
       /\ Len(trace') = 1
       /\ trace'[1].event = "error"
       /\ trace'[1].data = ErrorData("socketError")
       /\ UNCHANGED <<connected, socket, reconnectAttempts, autoReconnect, timers>>
       /\ UNCHANGED <<readyState, closeRequested, retriesScheduled>>]_vars

\* C16 witness: an error event has just been handled on the open handle of
\* a connected client whose auto-reconnect could still schedule a retry.
C16_Witness ==
  /\ lastOp.op = "error"
  /\ trace # <<>>
  /\ connected
  /\ socket # NULL
  /\ readyState[socket] = "OPEN"
  /\ lastOp.h = socket
  /\ autoReconnect
  /\ reconnectAttempts < maxReconnectAttempts

\* the retries are used up: the counter is at its maximum, no timer is
\* pending and no handle is opening or open
RetriesExhausted ==
  /\ reconnectAttempts = maxReconnectAttempts
  /\ timers = <<>>
  /\ LiveHandles = {}

C18_ConnectedSendReportsWrite ==
  [][(lastOp'.op = "sendCommand" /\ connected) =>
       LET wrote == /\ lastOp'.arg.json = "ok"
                    /\ socket # NULL
                    /\ readyState[socket] # "CONNECTING"
       IN /\ lastOp'.result = IF wrote THEN "true" ELSE "false"
          /\ written' = IF wrote THEN written \cup {<<nCmd', socket>>} ELSE written
          /\ dropped' = dropped
          /\ UNCHANGED <<connVars, authStrategy, eventHandlers, closures>>
          /\ UNCHANGED slotVars]_vars

\* C18 witness: connected is still TRUE after disconnect() dropped the
\* handle, and a sendCommand whose send() failed on the missing socket has
\* just returned false, after an earlier one was written.
C18_Witness ==
  /\ connected
  /\ socket = NULL
  /\ lastOp.op = "sendCommand"
  /\ lastOp.result = "false"
  /\ lastOp.arg.json = "ok"
  /\ written # {}

\* C19: for a Message of a recognized type the slot is written before any
\* listener runs: every event the Message fires, the type-named one and
\* "message", is dispatched to listeners that read the slot of that type
\* already equal to the Message.
C19_SlotWrittenBeforeListeners ==
  [][(lastOp'.op = "message" /\ lastOp'.arg.json = "object"
        /\ lastOp'.arg.type \in RecognizedTypes) =>
       LET message == [type |-> lastOp'.arg.type, body |-> lastOp'.arg.body]
           Seen(r) == IF message.type = PLAYER_STATE THEN r.seen.player
                      ELSE IF message.type = LOBBY_STATE THEN r.seen.lobby
                      ELSE r.seen.table
       IN /\ trace' # <<>>
          /\ \A i \in 1..Len(trace') :
               trace'[i].event \in {message.type, "message"} =>
                 Seen(trace'[i]) = message]_vars

\* C19 witness: a player:state Message that differs from the cached one
\* has just been dispatched to a listener of its type and to a listener of
\* "message".
C19_Witness ==
  /\ lastOp.op = "message"
  /\ lastOp.arg.type = PLAYER_STATE
  /\ lastOp.arg.body = 2
  /\ playerState = [type |-> PLAYER_STATE, body |-> 2]
  /\ Len(trace) = 2
  /\ trace[1].invoked # <<>>
  /\ trace[2].invoked # <<>>

\* C20: a well-formed Message whose type is not a recognized one fires the
\* event named by its type with the full Message and the "message" event
\* with the same Message, each once, and changes no slot.
C20_UnrecognizedTypeFiresBothEvents ==
  [][(lastOp'.op = "message" /\ lastOp'.arg.json = "object"
        /\ lastOp'.arg.type \notin RecognizedTypes) =>
       LET message == [type |-> lastOp'.arg.type, body |-> lastOp'.arg.body]
       IN /\ UNCHANGED slotVars
          /\ Cardinality({i \in 1..Len(trace') :
                            trace'[i].event = message.type /\ trace'[i].data = message}) = 1
          /\ Cardinality({i \in 1..Len(trace') :
                            trace'[i].event = "message" /\ trace'[i].data = message}) = 1]_vars

\* C21: firing an event invokes, in registration order, every callback
\* registered for that event name at the time of firing, a callback
\* registered n times n times, and no callback of another event name.
C21_FiringInvokesEveryCallback ==
  [][\A i \in 1..Len(trace') :
       trace'[i].invoked = eventHandlers[trace'[i].event]]_vars

\* C22: an exception thrown by a listener during the dispatch of any event
\* is not caught by the manager: it leaves the transport event handler (or
\* the call) that fired the event, and the manager fires no further event
\* in that step.
C22_ListenerExceptionPropagates ==
  [][\A i \in 1..Len(trace') :
       trace'[i].threw => (i = Len(trace') /\ lastOp'.result = "throw")]_vars

\* C23: every connect() that opens a handle, called by the application or
\* by a retry timer, invokes the configured authentication strategy once and
\* opens the handle to the strategy's url if it supplied one and to the
\* configured server URL otherwise, with the strategy's protocols; with no
\* strategy the handle is opened to the configured URL with no protocols.
C23_HandleOpenedAsStrategySays ==
  [][NumHandles' = NumHandles + 1 =>
       /\ lastOp'.op \in {"connect", "timer"}
       /\ lastOp'.auth = authStrategy
       /\ IF authStrategy
          THEN /\ lastOp'.arg.json \in {"url", "nourl"}
               /\ lastOp'.arg.type = IF lastOp'.arg.json = "url" THEN "auth" ELSE "server"
               /\ lastOp'.arg.body = 1
          ELSE lastOp'.arg = [json |-> "none", type |-> "server", body |-> 0]]_vars

\* C23 witness: a retry timer has just opened a handle to the url its own
\* call of the strategy supplied.
C23_Witness ==
  /\ lastOp.op = "timer"
  /\ lastOp.result = "true"
  /\ lastOp.auth
  /\ lastOp.arg.json = "url"
  /\ lastOp.arg.type = "auth"
  /\ readyState[lastOp.h] = "CONNECTING"

\* C24: in every reachable state connected = TRUE implies that the current
\* handle reference is non-null and that handle is open, between
\* disconnect() and the old handle's close event too; and the close event
\* of a replaced handle does not clear connected while the current handle
\* is open.
C24_ConnectedMeansOpenHandle ==
  /\ [](connected => (socket # NULL /\ readyState[socket] = "OPEN"))
  /\ [][(lastOp'.op = "close" /\ lastOp'.h # socket /\ connected
           /\ socket # NULL /\ readyState[socket] = "OPEN")
          => connected']_vars

\* C25: in every reachable state 0 <= reconnectAttempts <=
\* maxReconnectAttempts, also when close events of current and replaced
\* handles are delivered and several retry timers fire in any order.
C25_ReconnectAttemptsBounded ==
  /\ 0 <= reconnectAttempts
  /\ reconnectAttempts <= maxReconnectAttempts

\* C25 witness: the counter is at its maximum after the close events of a
\* replaced handle and of the current one, with two retry timers pending.
C25_Witness ==
  /\ reconnectAttempts = maxReconnectAttempts
  /\ Len(timers) >= 2
  /\ Cardinality({h \in Handles : readyState[h] = "CLOSED"}) >= 2
  /\ lastOp.op = "close"

\* C26: at most one reconnect retry timer is pending at any time, over
\* every interleaving of connect() calls, transport close events and timer
\* firings.
C26_AtMostOnePendingTimer == Len(timers) <= 1

\* C27: an "error" event of kind parseError fires only for an inbound
\* payload that is not valid JSON: valid JSON, the value null and an object
\* whose listeners throw included, never produces a parseError event.
C27_ParseErrorOnlyForInvalidJson ==
  [][(lastOp'.op = "message" /\ lastOp'.arg.json # "invalid") =>
       \A i \in 1..Len(trace') :
         ~(trace'[i].event = "error" /\ trace'[i].data = ErrorData("parseError"))]_vars

\* C28: "connected", "disconnected" and "error" are fired only by the
\* transport events: no inbound Message, whatever its type field, causes a
\* listener of one of these three events to be invoked.
C28_MessagesFireNoLifecycleEvent ==
  [][(lastOp'.op = "message" /\ lastOp'.arg.json = "object") =>
       \A i \in 1..Len(trace') :
         trace'[i].event \in LifecycleEvents => trace'[i].invoked = <<>>]_vars

\* C29: the command sendCommand(action, data) writes has its action field
\* equal to the action argument, for every data object, one that has a key
\* named action included.
C29_WrittenActionIsArgument ==
  \A c \in payloads : c[3] = c[2]

\* C30: when the same callback is registered twice for one event, invoking
\* one of the two unsubscribe closures removes exactly one registration, so
\* the callback is still invoked once on the next firing; invoking that
\* closure again removes nothing more.
C30_UnsubscribeRemovesOneRegistration ==
  [][\A e \in EventNames, cb \in Callbacks :
       (lastOp'.op = "off" /\ lastOp'.arg = Listener(e, cb)
          /\ Occurrences(eventHandlers[e], cb) = 2)
       => Occurrences(eventHandlers'[e], cb) = 1]_vars

\* C31: after the provider's effect is cleaned up and run again, the
\* provider holds a client that is connecting or connected: the effect run
\* that follows a cleanup leaves the client's current handle opening or open
\* (for the "context" provider with autoConnect on, which is what makes it
\* connect at all).
C31_RerunReconnects ==
  [][(\/ lastOp'.op = "hooksEffect" /\ provider.phase = "cleaned"
      \/ lastOp'.op = "listenerEffect" /\ provider.cleanups > 0 /\ provider.autoConnect)
       => (socket' # NULL /\ readyState'[socket'] \in {"CONNECTING", "OPEN"})]_vars

\* C32: the cleanup of the provider's listener effect leaves none of the
\* five handlers of that effect (connected, disconnected, player state,
\* lobby state, table state) in the client's subscription table, and so at
\* any time each of the five is registered at most once on the client the
\* provider holds.
C32_CleanupUnregistersHandlers ==
  /\ [][lastOp'.op = "listenerCleanup"
          => \A e \in DOMAIN ProviderHandlers :
               Occurrences(eventHandlers'[e], ProviderHandlers[e]) = 0]_vars
  /\ [](\A e \in DOMAIN ProviderHandlers :
          Occurrences(eventHandlers[e], ProviderHandlers[e]) <= 1)

====
